---- MODULE Spec2Model ----
(***************************************************************************)
(* Model of server.js: the POST /api/store-reading handler, its helpers    *)
(* sanitizeCollectionName and decodeBase64Image, and start().              *)
(*                                                                         *)
(* Strings are sequences of UTF-16 code units.  An ASCII unit is the       *)
(* one-character string of its character; any other unit is the string of *)
(* its JavaScript escape, a backslash, "u" and four lower-case hexadecimal *)
(* digits.  A JavaScript value is a record tagged by its kind: Undefined,  *)
(* Null, Bool(b), Num(n), Str(s), Obj(keys) (a plain object with the given *)
(* own property names), Arr(elems) (an array), Buf(bytes) (a Buffer).      *)
(***************************************************************************)
EXTENDS Integers, Sequences, FiniteSets, TLC

(***************************************************************************)
(* Bounds of the model.                                                    *)
(***************************************************************************)
\* number of requests the server receives in one behaviour
MaxRequests == 2
\* largest value Date.now() takes (the clock starts at 1)
MaxClock == 2

(***************************************************************************)
(* Characters.                                                             *)
(***************************************************************************)
UpperChars ==
    {"A","B","C","D","E","F","G","H","I","J","K","L","M",
     "N","O","P","Q","R","S","T","U","V","W","X","Y","Z"}

LowerChars ==
    {"a","b","c","d","e","f","g","h","i","j","k","l","m",
     "n","o","p","q","r","s","t","u","v","w","x","y","z"}

DigitChars == {"0","1","2","3","4","5","6","7","8","9"}

\* LineTerminator: LF, CR, U+2028, U+2029; what "." of a regular expression
\* skips
LineTerminatorChars == {"\n", "\r", "\\u2028", "\\u2029"}

\* WhiteSpace and LineTerminator, what String.prototype.trim and
\* StringToNumber strip: TAB, VT (U+000B), FF, SP, NBSP (U+00A0), ZWNBSP
\* (U+FEFF), the other space separators (U+1680, U+2000 to U+200A, U+202F,
\* U+205F, U+3000) and the line terminators.  VT is written as the
\* character itself.
WhiteSpaceChars ==
    {"\t", "", "\f", " ", "\\u00a0", "\\ufeff", "\\u1680",
     "\\u2000", "\\u2001", "\\u2002", "\\u2003", "\\u2004", "\\u2005",
     "\\u2006", "\\u2007", "\\u2008", "\\u2009", "\\u200a",
     "\\u202f", "\\u205f", "\\u3000"}
    \cup LineTerminatorChars

\* value of a digit character in a radix up to 16 (16 for any other character)
DigitValue(c) ==
    CASE c = "0" -> 0 [] c = "1" -> 1 [] c = "2" -> 2 [] c = "3" -> 3
      [] c = "4" -> 4 [] c = "5" -> 5 [] c = "6" -> 6 [] c = "7" -> 7
      [] c = "8" -> 8 [] c = "9" -> 9
      [] c \in {"a","A"} -> 10 [] c \in {"b","B"} -> 11
      [] c \in {"c","C"} -> 12 [] c \in {"d","D"} -> 13
      [] c \in {"e","E"} -> 14 [] c \in {"f","F"} -> 15
      [] OTHER -> 16

DigitChar(d) ==
    CASE d = 0 -> "0" [] d = 1 -> "1" [] d = 2 -> "2" [] d = 3 -> "3"
      [] d = 4 -> "4" [] d = 5 -> "5" [] d = 6 -> "6" [] d = 7 -> "7"
      [] d = 8 -> "8" [] OTHER -> "9"

(***************************************************************************)
(* String helpers.                                                         *)
(***************************************************************************)
\* s from position i (1-based) to its end
Drop(s, i) == SubSeq(s, i, Len(s))

StartsWith(s, p) == Len(s) >= Len(p) /\ SubSeq(s, 1, Len(p)) = p

AllIn(s, S) == \A i \in 1..Len(s) : s[i] \in S

\* c repeated n times
Rep(c, n) == [i \in 1..n |-> c]

\* String.prototype.trim: leading and trailing white space removed
RECURSIVE TrimStart(_)
TrimStart(s) ==
    IF s # <<>> /\ Head(s) \in WhiteSpaceChars THEN TrimStart(Tail(s)) ELSE s

RECURSIVE TrimEnd(_)
TrimEnd(s) ==
    IF s # <<>> /\ s[Len(s)] \in WhiteSpaceChars
    THEN TrimEnd(SubSeq(s, 1, Len(s) - 1))
    ELSE s

Trim(s) == TrimEnd(TrimStart(s))

\* length of the longest prefix of s whose characters are all in S
RECURSIVE PrefixLen(_, _)
PrefixLen(s, S) ==
    IF s # <<>> /\ Head(s) \in S THEN 1 + PrefixLen(Tail(s), S) ELSE 0

\* decimal text of a natural number, as a template literal prints it
RECURSIVE ToDigits(_)
ToDigits(n) ==
    IF n < 10 THEN <<DigitChar(n)>>
    ELSE ToDigits(n \div 10) \o <<DigitChar(n % 10)>>

(***************************************************************************)
(* JavaScript values.                                                      *)
(***************************************************************************)
Undefined == [t |-> "undefined"]
Null == [t |-> "null"]
Bool(b) == [t |-> "boolean", b |-> b]
Num(n) == [t |-> "number", n |-> n]
Str(s) == [t |-> "string", s |-> s]
\* a plain object of a JSON body; keys are the names of its own properties,
\* none of which holds a function
Obj(keys) == [t |-> "object", keys |-> keys]
\* an array of a JSON body; its typeof is "object" too, the tag tells it
\* from a plain object
Arr(elems) == [t |-> "array", elems |-> elems]
Buf(bytes) == [t |-> "buffer", bytes |-> bytes]

(***************************************************************************)
(* Numbers.  A double is NaN, an infinity, or the finite value             *)
(* (-1)^neg * m * 10^e with m free of trailing zeros (m = 0 has e = 0).    *)
(* Mantissas have at most nine digits, so that distinct records are        *)
(* distinct doubles.                                                       *)
(***************************************************************************)
NaN == [k |-> "nan", neg |-> FALSE, m |-> 0, e |-> 0]
Inf(neg) == [k |-> "inf", neg |-> neg, m |-> 0, e |-> 0]

RECURSIVE Normalize(_, _, _)
Normalize(neg, m, e) ==
    IF m = 0 THEN [k |-> "fin", neg |-> neg, m |-> 0, e |-> 0]
    ELSE IF m % 10 = 0 THEN Normalize(neg, m \div 10, e + 1)
    ELSE [k |-> "fin", neg |-> neg, m |-> m, e |-> e]

IntNum(n) == IF n < 0 THEN Normalize(TRUE, 0 - n, 0) ELSE Normalize(FALSE, n, 0)

\* Number.isNaN
IsNaN(n) == n.k = "nan"

\* value of a digit string in a radix (the empty string is 0)
RECURSIVE RadixValue(_, _)
RadixValue(s, radix) ==
    IF s = <<>> THEN 0
    ELSE radix * RadixValue(SubSeq(s, 1, Len(s) - 1), radix) + DigitValue(s[Len(s)])

RECURSIVE Pow10(_)
Pow10(n) == IF n = 0 THEN 1 ELSE 10 * Pow10(n - 1)

\* nine leading digits of 2^1024 - 2^970, above which a value rounds to an infinity
MaxDoubleLead == 179769313
\* nine leading digits of 2^-1075, up to which a value rounds to zero
MinDoubleLead == 247032822
\* decimal exponent of the largest double
MaxDoubleExp == 308
\* decimal exponent of 2^-1075
MinDoubleExp == 0 - 324
\* digits of a mantissa of the model
MantissaDigits == 9

\* Long natural numbers: sequences of limbs, the least significant first.
LimbBase == 10000

RECURSIVE Limbs(_)
Limbs(n) == IF n = 0 THEN <<>> ELSE <<n % LimbBase>> \o Limbs(n \div LimbBase)

\* a * d + carry, for one limb d
RECURSIVE LimbsTimes(_, _, _)
LimbsTimes(a, d, carry) ==
    IF a = <<>> THEN Limbs(carry)
    ELSE LET t == Head(a) * d + carry
         IN  <<t % LimbBase>> \o LimbsTimes(Tail(a), d, t \div LimbBase)

\* a + b + carry
RECURSIVE LimbsPlus(_, _, _)
LimbsPlus(a, b, carry) ==
    IF a = <<>> /\ b = <<>> THEN Limbs(carry)
    ELSE LET x == IF a = <<>> THEN 0 ELSE Head(a)
             y == IF b = <<>> THEN 0 ELSE Head(b)
             t == x + y + carry
         IN  <<t % LimbBase>>
             \o LimbsPlus(IF a = <<>> THEN a ELSE Tail(a),
                          IF b = <<>> THEN b ELSE Tail(b), t \div LimbBase)

\* a * b
RECURSIVE LimbsProduct(_, _)
LimbsProduct(a, b) ==
    IF b = <<>> THEN <<>>
    ELSE LimbsPlus(LimbsTimes(a, Head(b), 0), <<0>> \o LimbsProduct(a, Tail(b)), 0)

\* a without its leading zero limbs
RECURSIVE StripLimbs(_)
StripLimbs(a) ==
    IF a # <<>> /\ a[Len(a)] = 0 THEN StripLimbs(SubSeq(a, 1, Len(a) - 1)) ELSE a

\* a < b
RECURSIVE LimbsLess(_, _)
LimbsLess(a, b) ==
    LET x == StripLimbs(a)
        y == StripLimbs(b)
    IN  IF Len(x) # Len(y) THEN Len(x) < Len(y)
        ELSE IF x = <<>> THEN FALSE
        ELSE IF x[Len(x)] # y[Len(y)] THEN x[Len(x)] < y[Len(y)]
        ELSE LimbsLess(SubSeq(x, 1, Len(x) - 1), SubSeq(y, 1, Len(y) - 1))

\* 2^-1075, half the least positive double, counted in 10^-324 and cut
\* after forty decimals: 2.4703282292062327208828439643411068618252
HalfMinValue == <<8252, 6861, 4110, 9643, 2843, 2088, 2327, 9206, 2822, 4703, 2>>

\* a * 2^-1075 * 10^j < b * 10^-324.  No decimal of nine digits is as
\* near to a multiple of 2^-1075 as the forty decimals are to 2^-1075.
BelowDecimal(a, j, b) ==
    LimbsLess(LimbsProduct(LimbsProduct(HalfMinValue, Limbs(a)), Limbs(Pow10(j))),
              [i \in 1..(Len(HalfMinValue) - 1) |-> 0] \o Limbs(b))

\* the multiple of 2^-1074, the least positive double, nearest to
\* m * 10^(-324 - j): the least k in lo..hi with
\* m * 10^(-324 - j) < (2k + 1) * 2^-1075
RECURSIVE NearestMultiple(_, _, _, _)
NearestMultiple(m, j, lo, hi) ==
    IF lo = hi THEN lo
    ELSE LET mid == (lo + hi) \div 2
         IN  IF BelowDecimal(2 * mid + 1, j, m)
             THEN NearestMultiple(m, j, mid + 1, hi)
             ELSE NearestMultiple(m, j, lo, mid)

\* the least N in lo..hi with (2k - 1) * 2^-1075 < N * 10^-324
RECURSIVE LeastDecimal(_, _, _)
LeastDecimal(k, lo, hi) ==
    IF lo = hi THEN lo
    ELSE LET mid == (lo + hi) \div 2
         IN  IF BelowDecimal(2 * k - 1, 0, mid)
             THEN LeastDecimal(k, lo, mid)
             ELSE LeastDecimal(k, mid + 1, hi)

\* the double k * 2^-1074 (k > 0) as the decimal that names it: of the
\* decimals that round to it, one with the fewest digits, and of these the
\* nearest to it
SubnormalDouble(neg, k) ==
    LET first == LeastDecimal(k, 4 * k - 4, 5 * k)
        decimals == {N \in first..(first + 4) : ~BelowDecimal(2 * k + 1, 0, N)}
        Digits(N) == Len(ToDigits(Normalize(FALSE, N, 0).m))
        Better(a, b) ==
            IF Digits(a) # Digits(b) THEN Digits(a) < Digits(b)
            ELSE IF a < b THEN BelowDecimal(4 * k, 0, a + b)
            ELSE ~BelowDecimal(4 * k, 0, a + b)
        best == CHOOSE a \in decimals : \A b \in decimals \ {a} : Better(a, b)
    IN  Normalize(neg, best, MinDoubleExp)

\* the double nearest to (-1)^neg * m * 10^e: overflow gives an infinity,
\* underflow gives zero, and a decimal with digits below 10^-323, where the
\* doubles are the multiples of 2^-1074 and lie further apart than the
\* decimals, gives the nearest of these
RoundToDouble(neg, m, e) ==
    LET n == Normalize(neg, m, e)
        d == Len(ToDigits(n.m))
        x == d - 1 + n.e
        lead == n.m * Pow10(MantissaDigits - d)
    IN  IF n.m = 0 THEN n
        ELSE IF x > MaxDoubleExp \/ (x = MaxDoubleExp /\ lead > MaxDoubleLead)
             THEN Inf(neg)
        ELSE IF x < MinDoubleExp \/ (x = MinDoubleExp /\ lead <= MinDoubleLead)
             THEN Normalize(neg, 0, 0)
        ELSE IF n.e <= MinDoubleExp
             THEN SubnormalDouble(neg, NearestMultiple(n.m, MinDoubleExp - n.e, 0,
                                                       n.m \div 4 + 1))
        ELSE n

\* StrUnsignedDecimalLiteral other than Infinity: digits, an optional
\* fraction, an optional exponent; anything else is NaN
DecimalLiteral(neg, u) ==
    LET ip == PrefixLen(u, DigitChars)
        a1 == Drop(u, ip + 1)
        dot == a1 # <<>> /\ Head(a1) = "."
        fp == IF dot THEN PrefixLen(Tail(a1), DigitChars) ELSE 0
        a2 == IF dot THEN Drop(a1, fp + 2) ELSE a1
        hasExp == a2 # <<>> /\ Head(a2) \in {"e", "E"}
        a3 == IF hasExp THEN Tail(a2) ELSE <<>>
        eneg == a3 # <<>> /\ Head(a3) = "-"
        ed == IF a3 # <<>> /\ Head(a3) \in {"+", "-"} THEN Tail(a3) ELSE a3
        digits == SubSeq(u, 1, ip) \o (IF dot THEN SubSeq(a1, 2, fp + 1) ELSE <<>>)
        ev == IF eneg THEN 0 - RadixValue(ed, 10) ELSE RadixValue(ed, 10)
    IN  IF ip + fp = 0 THEN NaN
        ELSE IF a2 = <<>> THEN RoundToDouble(neg, RadixValue(digits, 10), 0 - fp)
        ELSE IF hasExp /\ ed # <<>> /\ AllIn(ed, DigitChars)
             THEN RoundToDouble(neg, RadixValue(digits, 10), ev - fp)
        ELSE NaN

\* 0x, 0o and 0b literals (unsigned)
IsRadixLiteral(t, marks, radix) ==
    /\ Len(t) >= 3
    /\ t[1] = "0"
    /\ t[2] \in marks
    /\ \A i \in 3..Len(t) : DigitValue(t[i]) < radix

\* StringToNumber: the Number(...) of a string
StringToNumber(s) ==
    LET t == Trim(s)
        signed == t # <<>> /\ Head(t) \in {"+", "-"}
        neg == t # <<>> /\ Head(t) = "-"
        u == IF signed THEN Tail(t) ELSE t
    IN  IF t = <<>> THEN IntNum(0)
        ELSE IF IsRadixLiteral(t, {"x", "X"}, 16) THEN IntNum(RadixValue(Drop(t, 3), 16))
        ELSE IF IsRadixLiteral(t, {"o", "O"}, 8) THEN IntNum(RadixValue(Drop(t, 3), 8))
        ELSE IF IsRadixLiteral(t, {"b", "B"}, 2) THEN IntNum(RadixValue(Drop(t, 3), 2))
        ELSE IF u = <<"I","n","f","i","n","i","t","y">> THEN Inf(neg)
        ELSE DecimalLiteral(neg, u)

\* what Number(v) gives when the conversion throws its TypeError
TypeError == [k |-> "TypeError", neg |-> FALSE, m |-> 0, e |-> 0]

\* the conversion of v to a primitive throws: v is a plain object with an
\* own property "toString", which is no function (valueOf, own or inherited,
\* gives no primitive either), or an array whose join meets such an object
RECURSIVE ToPrimitiveThrows(_)
ToPrimitiveThrows(v) ==
    CASE v.t = "object" -> "toString" \in v.keys
      [] v.t = "array" -> \E i \in 1..Len(v.elems) : ToPrimitiveThrows(v.elems[i])
      [] OTHER -> FALSE

\* Number(v): ToNumber of a value parsed from a JSON body.  A plain object
\* throws (TypeError) or is "[object Object]", which is NaN.  An array
\* throws, or is its join(","): the empty string for no element, the text of
\* its element for one (the empty string for null, the digits of a number,
\* -0 printing as 0, and "true", "false" or "[object Object]", which are
\* NaN), and a text with a comma, which is NaN, for more.
RECURSIVE Number(_)
Number(v) ==
    IF ToPrimitiveThrows(v) THEN TypeError ELSE
    CASE v.t = "undefined" -> NaN
      [] v.t = "null" -> IntNum(0)
      [] v.t = "boolean" -> IF v.b THEN IntNum(1) ELSE IntNum(0)
      [] v.t = "number" -> v.n
      [] v.t = "string" -> StringToNumber(v.s)
      [] v.t = "array" ->
            IF v.elems = <<>> THEN IntNum(0)
            ELSE IF Len(v.elems) > 1 THEN NaN
            ELSE LET x == v.elems[1]
                 IN  CASE x.t \in {"undefined", "null"} -> IntNum(0)
                       [] x.t = "number" ->
                             IF x.n.k = "fin" /\ x.n.m = 0 THEN IntNum(0) ELSE x.n
                       [] x.t = "string" -> StringToNumber(x.s)
                       [] x.t = "array" -> Number(x)
                       [] OTHER -> NaN
      [] OTHER -> NaN

(***************************************************************************)
(* sanitizeCollectionName.                                                 *)
(***************************************************************************)
\* the character class [A-Za-z0-9_-]
FieldIdChars == UpperChars \cup LowerChars \cup DigitChars \cup {"_", "-"}

\* the quantifier {1,100}
MinFieldIdLen == 1
MaxFieldIdLen == 100

\* /^[A-Za-z0-9_-]{1,100}$/.test(s)
FieldIdRegexTest(s) ==
    /\ Len(s) >= MinFieldIdLen
    /\ Len(s) <= MaxFieldIdLen
    /\ AllIn(s, FieldIdChars)

\* sanitizeCollectionName returning its argument instead of the trimmed text
sanitizeWithoutTrim(name) ==
    IF name.t # "string" THEN Null
    ELSE IF ~FieldIdRegexTest(Trim(name.s)) THEN Null ELSE Str(name.s)

sanitizeCollectionName(name) ==
    IF name.t # "string" THEN Null
    ELSE LET trimmed == Trim(name.s)
         IN  IF ~FieldIdRegexTest(trimmed) THEN Null ELSE Str(trimmed)

(***************************************************************************)
(* decodeBase64Image.                                                      *)
(***************************************************************************)
\* the base64 alphabet in the order of its values 0..63
B64Chars ==
    <<"A","B","C","D","E","F","G","H","I","J","K","L","M",
      "N","O","P","Q","R","S","T","U","V","W","X","Y","Z",
      "a","b","c","d","e","f","g","h","i","j","k","l","m",
      "n","o","p","q","r","s","t","u","v","w","x","y","z",
      "0","1","2","3","4","5","6","7","8","9","+","/">>

\* value of "-" and of "_", the url-safe forms of "+" and "/"
B64Minus == 62
B64Underscore == 63
\* what unbase64 gives for a character outside the alphabet
B64Illegal == 64

\* the ASCII characters from the space (0x20) to the underscore (0x5F), in
\* the order of their codes
AsciiFromSpace ==
    " !\"#$%&'()*+,-./0123456789:;<=>?@ABCDEFGHIJKLMNOPQRSTUVWXYZ[\\]^_"

\* the ASCII characters from "a" (0x61) to the tilde (0x7E), in the order of
\* their codes
AsciiFromSmallA == "abcdefghijklmnopqrstuvwxyz{|}~"

\* code of the space
AsciiSpace == 32

\* code of "a"
AsciiSmallA == 97

\* what Buffer's decoder reads of a code unit: its low byte.  For an ASCII
\* unit that is the unit; for another unit it is the ASCII character whose
\* code is the last two digits of the escape (U+0141 reads as "A", U+202F
\* as "/", U+013D as "="), or no character of the alphabet.
LowByteChar(c) ==
    IF Len(c) = 1 THEN c
    ELSE LET b == RadixValue(<<SubSeq(c, 5, 5), SubSeq(c, 6, 6)>>, 16)
             i == b - AsciiSpace + 1
             j == b - AsciiSmallA + 1
         IN  IF i \in 1..Len(AsciiFromSpace) THEN SubSeq(AsciiFromSpace, i, i)
             ELSE IF j \in 1..Len(AsciiFromSmallA) THEN SubSeq(AsciiFromSmallA, j, j)
             ELSE c

\* unbase64 of Buffer's decoder: the 6-bit value of a code unit
unbase64(c) ==
    LET a == LowByteChar(c)
    IN  IF a = "-" THEN B64Minus
        ELSE IF a = "_" THEN B64Underscore
        ELSE IF \E i \in 1..Len(B64Chars) : B64Chars[i] = a
             THEN (CHOOSE i \in 1..Len(B64Chars) : B64Chars[i] = a) - 1
        ELSE B64Illegal

\* the 6-bit values Buffer's decoder reads: it stops at the first unit that
\* reads as "=" and skips every other unit outside the alphabet
RECURSIVE B64Values(_)
B64Values(s) ==
    IF s = <<>> \/ LowByteChar(Head(s)) = "=" THEN <<>>
    ELSE IF unbase64(Head(s)) < B64Illegal
         THEN <<unbase64(Head(s))>> \o B64Values(Tail(s))
    ELSE B64Values(Tail(s))

\* the bytes of a sequence of 6-bit values: three bytes per four values, and
\* one or two bytes for a last group of two or three values
RECURSIVE B64Bytes(_)
B64Bytes(v) ==
    IF Len(v) < 2 THEN <<>>
    ELSE LET b1 == v[1] * 4 + (v[2] \div 16)
         IN  IF Len(v) = 2 THEN <<b1>>
             ELSE LET b2 == (v[2] % 16) * 16 + (v[3] \div 4)
                  IN  IF Len(v) = 3 THEN <<b1, b2>>
                      ELSE <<b1, b2, (v[3] % 4) * 64 + v[4]>> \o B64Bytes(Drop(v, 5))

\* Buffer.from(s, "base64"): it never throws on a string
BufferFromBase64(s) == Buf(B64Bytes(B64Values(s)))

\* the character class [A-Za-z-+/] of the data-URI pattern
MimeChars == UpperChars \cup LowerChars \cup {"-", "+", "/"}

DataPrefix == <<"d","a","t","a",":">>
Base64Mark == <<";","b","a","s","e","6","4",",">>

\* dataString.match(/^data:([A-Za-z-+/]+);base64,(.+)$/): Null when there is
\* no match, else the second group.  The first group cannot hold ";", so it
\* is the longest run of class characters after "data:".
DataUriMatch(s) ==
    IF ~StartsWith(s, DataPrefix) THEN Null
    ELSE LET rest == Drop(s, Len(DataPrefix) + 1)
             n == PrefixLen(rest, MimeChars)
             after == Drop(rest, n + 1)
             payload == Drop(after, Len(Base64Mark) + 1)
         IN  IF /\ n >= 1
                /\ StartsWith(after, Base64Mark)
                /\ payload # <<>>
                /\ \A i \in 1..Len(payload) : payload[i] \notin LineTerminatorChars
             THEN Str(payload)
             ELSE Null

\* decodeBase64Image(dataString).buffer; a value that is no string has no
\* match method, the TypeError is caught and the buffer is null
decodeBase64Image(dataString) ==
    IF dataString.t # "string" THEN Null
    ELSE LET matches == DataUriMatch(dataString.s)
             base64Data == IF matches # Null THEN matches.s ELSE dataString.s
         IN  BufferFromBase64(base64Data)

(***************************************************************************)
(* The request handler's steps, as functions of what they read.            *)
(***************************************************************************)
\* process.env.DATABASE_NAME || "AgriVision_IoT"
DATABASE_NAME == "AgriVision_IoT"

\* __dirname, the directory of server.js
Dirname == <<"/","a","p","p">>

\* path.join(__dirname, "uploads")
UploadsDir == Dirname \o <<"/","u","p","l","o","a","d","s">>

\* the file name without its timestamp
UploadPathWithoutTimestamp(collectionName, timestamp) ==
    UploadsDir \o <<"/">> \o collectionName \o <<".","j","p","g">>

\* path.join(uploadsDir, `${collectionName}_${timestamp}.jpg`)
UploadPath(collectionName, timestamp) ==
    UploadsDir \o <<"/">> \o collectionName \o <<"_">> \o ToDigits(timestamp)
        \o <<".","j","p","g">>

InvalidFieldIdMessage ==
    "Invalid field_id. Use only letters, numbers, - and _ (max 100 chars)."
MissingImageMessage == "image_base64 is required"
MissingSensorMessage == "soil_moisture, temperature and humidity are required"
NonNumericMessage == "Sensor values must be numeric"
ServerErrorMessage == "Server error"

\* the three sensor values of a body, in the order the handler lists them
SensorValues(body) == <<body.soil_moisture, body.temperature, body.humidity>>

\* a response: its status and the fields of its JSON body ("" and Undefined
\* for a field the body does not have); status 0 is no response yet
NoResponse ==
    [status |-> 0, error |-> "", details |-> "", success |-> FALSE,
     insertedId |-> 0, collection |-> Undefined, saved_file |-> Undefined]

ErrorResponse(status, error, details) ==
    [NoResponse EXCEPT !.status = status, !.error = error, !.details = details]

SuccessResponse(insertedId, collectionName, savedFilename) ==
    [NoResponse EXCEPT !.status = 200, !.success = TRUE, !.insertedId = insertedId,
                       !.collection = collectionName, !.saved_file = savedFilename]

\* message of the TypeError of a conversion to a primitive
PrimitiveErrorMessage == "Cannot convert object to primitive value"

\* the validation of the handler, first failure first: the response it
\* sends, or NoResponse when the body passes.  The three Number(...) run
\* before the test of their results; one that throws takes the handler to
\* its catch block, which answers 500.
Validate(body) ==
    IF sanitizeCollectionName(body.field_id) = Null
    THEN ErrorResponse(400, InvalidFieldIdMessage, "")
    ELSE IF body.image_base64 \in {Null, Undefined}
    THEN ErrorResponse(400, MissingImageMessage, "")
    ELSE IF \E i \in 1..3 : SensorValues(body)[i] \in {Undefined, Null}
    THEN ErrorResponse(400, MissingSensorMessage, "")
    ELSE IF \E i \in 1..3 : Number(SensorValues(body)[i]) = TypeError
    THEN ErrorResponse(500, ServerErrorMessage, PrimitiveErrorMessage)
    ELSE IF \E i \in 1..3 : IsNaN(Number(SensorValues(body)[i]))
    THEN ErrorResponse(400, NonNumericMessage, "")
    ELSE NoResponse

\* where the file-system calls of the handler can throw: in fs.mkdirSync,
\* and in fs.writeFileSync(path, buffer) when it opens the file, when it
\* writes the bytes, when it closes the file
FaultKinds == {"mkdir", "open", "write", "close"}

\* what fs.writeFileSync(path, buffer) can do under the given kinds of
\* fault: write the bytes and return, or throw.  A call that throws when it
\* opens the file leaves the path as it was; one that throws when it writes
\* (a limit on the file size, a full disk) leaves the file created, or
\* truncated, holding the first k bytes of the buffer, not all of them; one
\* that throws when it closes the file leaves all the bytes.
WriteResults(bytes, faults) ==
    {[threw |-> FALSE, file |-> Buf(bytes)]}
    \cup {[threw |-> TRUE, file |-> Null] : f \in faults \cap {"open"}}
    \cup {[threw |-> TRUE, file |-> Buf(SubSeq(bytes, 1, k))] :
             k \in IF "write" \in faults THEN 0..(Len(bytes) - 1) ELSE {}}
    \cup {[threw |-> TRUE, file |-> Buf(bytes)] : f \in faults \cap {"close"}}

\* the try block that saves the image: what it leaves in savedFilename, the
\* file-system calls it makes, whether it created the uploads directory,
\* what it left in the file (Null for a path it did not change) and whether
\* a call threw.  exists is fs.existsSync(uploadsDir), mkdirThrows says
\* whether fs.mkdirSync throws when called, write is what fs.writeFileSync
\* does when called.
SaveImage(buffer, collectionName, timestamp, exists, mkdirThrows, write) ==
    IF buffer = Null
    THEN [savedFilename |-> Null, calls |-> {}, mkdir |-> FALSE,
          file |-> Null, threw |-> FALSE]
    ELSE IF ~exists /\ mkdirThrows
    THEN [savedFilename |-> Null, calls |-> {"existsSync", "mkdirSync"},
          mkdir |-> FALSE, file |-> Null, threw |-> TRUE]
    ELSE [savedFilename |-> Str(UploadPath(collectionName, timestamp)),
          calls |-> {"existsSync", "writeFileSync"}
                    \cup (IF exists THEN {} ELSE {"mkdirSync"}),
          mkdir |-> ~exists,
          file |-> write.file,
          threw |-> write.threw]

\* the document the handler builds
MakeDoc(collectionName, body, savedFilename, createdAt) ==
    [field_id |-> collectionName,
     soil_moisture |-> Number(body.soil_moisture),
     temperature |-> Number(body.temperature),
     humidity |-> Number(body.humidity),
     image_base64 |-> body.image_base64,
     saved_file |-> savedFilename,
     created_at |-> createdAt]

(***************************************************************************)
(* Request bodies: a body that passes every check, and that body with one  *)
(* field, or two, replaced.                                                *)
(***************************************************************************)
FieldIdInputs ==
    {Undefined, Null, Num(IntNum(7)), Arr(<<>>),
     Arr(<<Str(<<"f">>)>>), Str(<<"\f","F","\f">>), Str(<<"","f"," ">>),
     Str(<<"\\ufeff","f","\\u2028">>), Str(<<"f","\\u3000","g">>),
     Str(<<"F","i","e","l","d","_","0","1">>), Str(<<" ","f","-","1","\n">>), Str(<<"f">>), Str(<<"b","a","d"," ","i","d","!">>), Str(<<".",".","/","x">>),
     Str(<<>>), Str(<<" "," ">>),
     Str(Rep("a", MaxFieldIdLen)), Str(Rep("a", MaxFieldIdLen + 1))}

SensorInputs ==
    {Undefined, Null, Num(IntNum(21)), Num(Inf(FALSE)), Bool(TRUE), Obj({}),
     Str(<<"3","e","-","3","2","4">>), Str(<<"-","1",".","3","e","-","3","2","3">>),
     Obj({"toString"}), Obj({"valueOf"}), Arr(<<Obj({})>>), Arr(<<Obj({"toString"})>>),
     Arr(<<Num(IntNum(1)), Obj({"toString", "valueOf"})>>),
     Arr(<<>>), Arr(<<Num(IntNum(5))>>), Arr(<<Num(Normalize(TRUE, 0, 0))>>),
     Arr(<<Str(<<"7">>)>>), Arr(<<Null>>), Arr(<<Bool(TRUE)>>), Arr(<<Arr(<<>>)>>),
     Arr(<<Num(IntNum(1)), Num(IntNum(2))>>),
     Str(<<"\f","4","2">>), Str(<<"\f">>), Str(<<"">>), Str(<<" ","9","\\u2029">>),
     Str(<<"4","2",".","5">>), Str(<<"a","b","c">>), Str(<<>>), Str(<<"I","n","f","i","n","i","t","y">>), Str(<<"1","e","9","9","9">>), Str(<<" ","0","x","1","F"," ">>)}

ImageInputs ==
    {Undefined, Null, Num(IntNum(5)), Obj({}), Obj({"toString"}), Arr(<<>>),
     Str(<<"Q","\\u0141","=","=">>), Str(<<"Q","Q","\\u013d","A">>),
     Str(<<"Q","\\u202f","=","=">>),
     Str(<<"Q","Q","=","=">>), Str(<<"T","W","F","u">>), Str(<<"!","!","!","!">>), Str(<<>>),
     Str(<<"d","a","t","a",":","i","m","a","g","e","/","j","p","e","g",";","b","a","s","e","6","4",",","Q","Q","=","=">>),
     Str(<<"d","a","t","a",":","i","m","a","g","e","/","s","v","g","+","x","m","l",";","b","a","s","e","6","4",",","T","W","F","u">>),
     Str(<<"d","a","t","a",":","v","i","d","e","o","/","m","p","4",";","b","a","s","e","6","4",",","Q","Q","=","=">>),
     Str(<<"d","a","t","a",":","i","m","a","g","e","/","p","n","g",";","b","a","s","e","6","4",",">>),
     Str(<<"d","a","t","a",":","t","e","x","t","/","p","l","a","i","n",";","b","a","s","e","6","4",",","Q","Q","=","=","\n">>)}

DatabaseNameInputs == {Undefined, Str(<<"o","t","h","e","r","_","d","b">>)}

BaseBody ==
    [field_id |-> Str(<<"F","i","e","l","d","_","0","1">>),
     soil_moisture |-> Str(<<"4","2",".","5">>),
     temperature |-> Num(IntNum(21)),
     humidity |-> Num(IntNum(60)),
     image_base64 |-> Str(<<"Q","Q","=","=">>),
     database_name |-> Undefined]

\* the bodies of the requests that the server handles concurrently: one
\* that passes every check and one that fails the last
Bodies == {BaseBody, [BaseBody EXCEPT !.soil_moisture = Str(<<"a","b","c">>)]}

\* the bodies of concurrent uploads: one for a collection, one for the same
\* collection (its field_id has a space to trim) with another image, and
\* one for another collection
UploadBodies ==
    {BaseBody,
     [BaseBody EXCEPT !.field_id = Str(<<" ","F","i","e","l","d","_","0","1">>),
                      !.image_base64 = Str(<<"T","Q","=","=">>)],
     [BaseBody EXCEPT !.field_id = Str(<<"F","i","e","l","d","_","0","1","_","1">>)]}

\* the bodies of a request handled alone
AllBodies ==
    {[BaseBody EXCEPT !.field_id = v] : v \in FieldIdInputs}
    \cup {[BaseBody EXCEPT !.soil_moisture = v] : v \in SensorInputs}
    \cup {[BaseBody EXCEPT !.temperature = v] : v \in SensorInputs}
    \cup {[BaseBody EXCEPT !.humidity = v] : v \in SensorInputs}
    \cup {[BaseBody EXCEPT !.image_base64 = v] : v \in ImageInputs}
    \cup {[BaseBody EXCEPT !.database_name = v] : v \in DatabaseNameInputs}
    \cup Bodies
    \cup {[BaseBody EXCEPT !.field_id = Str(<<" ","f","\n">>),
                           !.image_base64 = Str(<<"d","a","t","a",":","i","m","a","g","e","/","j","p","e","g",";","b","a","s","e","6","4",",","T","W","F","u">>),
                           !.database_name = Str(<<"o","t","h","e","r","_","d","b">>)],
          [BaseBody EXCEPT !.field_id = Str(<<"b","a","d"," ","i","d","!">>), !.image_base64 = Undefined],
          [BaseBody EXCEPT !.image_base64 = Null, !.humidity = Undefined],
          [BaseBody EXCEPT !.soil_moisture = Str(<<"a","b","c">>), !.humidity = Null],
          [BaseBody EXCEPT !.soil_moisture = Str(<<"a","b","c">>),
                           !.temperature = Obj({"toString"})],
          [BaseBody EXCEPT !.field_id = Str(<<"f">>), !.image_base64 = Str(<<"!","!","!","!">>)]}

(***************************************************************************)
(* State.                                                                  *)
(***************************************************************************)
VARIABLES
    startPc,        \* where start() is: "init", "connecting", "connected",
                    \* "listening", "catch", "exited"
    connected,      \* client.connect() has resolved
    listening,      \* app.listen(PORT) has been called
    exitCode,       \* the status process.exit was called with, -1 before
    now,            \* what Date.now() returns
    uploadsExists,  \* the uploads directory exists
    files,          \* the files under uploads: a set of [path, bytes]
    store,          \* the documents inserted, in order: [db, collection, _id, doc]
    req             \* the requests, by order of arrival

vars == <<startPc, connected, listening, exitCode, now, uploadsExists, files, store, req>>

Requests == 1..MaxRequests

\* the body {}
EmptyBody ==
    [field_id |-> Undefined, soil_moisture |-> Undefined, temperature |-> Undefined,
     humidity |-> Undefined, image_base64 |-> Undefined, database_name |-> Undefined]

\* what a request holds for its document before it has built one
NoDoc == MakeDoc(Null, EmptyBody, Null, 0)

\* a request that has not arrived.  calls lists the calls the request has
\* made on the file system and on the store; written is what its
\* writeFileSync left in the file (Null for none); fsThrew says that one of
\* its file-system calls threw.
IdleRequest ==
    [pc |-> "idle", body |-> EmptyBody, collectionName |-> Null, buffer |-> Null,
     timestamp |-> 0, savedFilename |-> Null, doc |-> NoDoc, insertedId |-> 0,
     calls |-> {}, written |-> Null, fsThrew |-> FALSE, resp |-> NoResponse]

\* message of the error insertOne rejects with
InsertErrors == {"connection closed"}

Init ==
    /\ startPc = "init"
    /\ connected = FALSE
    /\ listening = FALSE
    /\ exitCode = -1
    /\ now = 1
    /\ uploadsExists \in BOOLEAN
    /\ files = {}
    /\ store = <<>>
    /\ req = [r \in Requests |-> IdleRequest]

(***************************************************************************)
(* start().                                                                *)
(***************************************************************************)
\* start() binding the listener before it awaits client.connect()
StartListenFirst ==
    /\ startPc = "init"
    /\ startPc' = "connecting"
    /\ listening' = TRUE
    /\ UNCHANGED <<connected, exitCode, now, uploadsExists, files, store, req>>

\* start() is called and awaits client.connect()
StartConnect ==
    /\ startPc = "init"
    /\ startPc' = "connecting"
    /\ UNCHANGED <<connected, listening, exitCode, now, uploadsExists, files, store, req>>

\* client.connect() resolves
ConnectOk ==
    /\ startPc = "connecting"
    /\ startPc' = "connected"
    /\ connected' = TRUE
    /\ UNCHANGED <<listening, exitCode, now, uploadsExists, files, store, req>>

\* client.connect() rejects: control goes to the catch block
ConnectFail ==
    /\ startPc = "connecting"
    /\ startPc' = "catch"
    /\ UNCHANGED <<connected, listening, exitCode, now, uploadsExists, files, store, req>>

\* app.listen(PORT, ...) binds the listener
Listen ==
    /\ startPc = "connected"
    /\ startPc' = "listening"
    /\ listening' = TRUE
    /\ UNCHANGED <<connected, exitCode, now, uploadsExists, files, store, req>>

\* app.listen throws (a PORT that is no port): control goes to the catch block
ListenThrows ==
    /\ startPc = "connected"
    /\ startPc' = "catch"
    /\ UNCHANGED <<connected, listening, exitCode, now, uploadsExists, files, store, req>>

\* the catch block: process.exit(1)
Exit ==
    /\ startPc = "catch"
    /\ startPc' = "exited"
    /\ exitCode' = 1
    /\ UNCHANGED <<connected, listening, now, uploadsExists, files, store, req>>

(***************************************************************************)
(* The clock.                                                              *)
(***************************************************************************)
\* time passes between two requests; only a request still to come reads
\* the clock
Tick ==
    /\ now < MaxClock
    /\ listening
    /\ \E r \in Requests : req[r].pc = "idle"
    /\ now' = now + 1
    /\ UNCHANGED <<startPc, connected, listening, exitCode, uploadsExists, files, store, req>>

(***************************************************************************)
(* POST /api/store-reading.                                                *)
(***************************************************************************)
\* the handler from its first line to its await of collection.insertOne(doc):
\* a 400 or 500 response, or the image saved as far as it goes and the
\* insert issued.  The handler reads the clock twice, Date.now() for the file name
\* and new Date() for created_at, with the write of the file in between:
\* createdAt is the later reading.  bodies are the bodies the request may
\* carry, faults the kinds of fault its file-system calls may meet.
HandleWith(r, bodies, faults) ==
    /\ listening
    /\ exitCode = -1
    /\ req[r].pc = "idle"
    /\ IF r = 1 THEN TRUE ELSE req[r - 1].pc # "idle"
    /\ \E body \in bodies :
         LET answer == Validate(body)
             collectionName == sanitizeCollectionName(body.field_id)
             buffer == decodeBase64Image(body.image_base64)
         IN  IF answer # NoResponse
             THEN /\ req' = [req EXCEPT ![r] =
                                [@ EXCEPT !.pc = "done", !.body = body,
                                          !.resp = answer]]
                  /\ UNCHANGED <<now, uploadsExists, files>>
             ELSE \E mkdirThrows \in IF "mkdir" \in faults THEN BOOLEAN ELSE {FALSE},
                     createdAt \in now..MaxClock,
                     write \in WriteResults(IF buffer = Null THEN <<>> ELSE buffer.bytes,
                                            faults) :
                  LET saved == SaveImage(buffer, collectionName.s, now, uploadsExists,
                                         mkdirThrows, write)
                      doc == MakeDoc(collectionName, body, saved.savedFilename, createdAt)
                  IN  /\ now' = createdAt
                      /\ uploadsExists' = (uploadsExists \/ saved.mkdir)
                      /\ files' =
                            IF saved.file # Null
                            THEN {f \in files : f.path # saved.savedFilename.s}
                                 \cup {[path |-> saved.savedFilename.s,
                                        bytes |-> saved.file.bytes]}
                            ELSE files
                      /\ req' = [req EXCEPT ![r] =
                                    [@ EXCEPT !.pc = "awaiting", !.body = body,
                                              !.collectionName = collectionName,
                                              !.buffer = buffer,
                                              !.timestamp = IF saved.savedFilename # Null
                                                            THEN now ELSE 0,
                                              !.savedFilename = saved.savedFilename,
                                              !.doc = doc,
                                              !.written = saved.file,
                                              !.fsThrew = saved.threw,
                                              !.calls = saved.calls
                                                        \cup {"db", "collection", "insertOne"}]]
    /\ UNCHANGED <<startPc, connected, listening, exitCode, store>>

\* a request among concurrent ones: its mkdirSync may throw, and its write
\* when it opens the file or when it writes
Handle(r) == HandleWith(r, Bodies, {"mkdir", "open", "write"})

\* an upload among concurrent ones, for one of two collections: no call
\* on the file system throws
HandleUpload(r) == HandleWith(r, UploadBodies, {})

\* a request handled alone: any call on the file system may throw
HandleAlone == HandleWith(1, AllBodies, FaultKinds)

\* an insert that skips a document the collection already holds
InsertOkUnlessDuplicate(r) ==
    /\ req[r].pc = "awaiting"
    /\ LET same == {i \in 1..Len(store) :
                      /\ store[i].collection = req[r].collectionName.s
                      /\ store[i].doc = req[r].doc}
       IN  IF same = {}
           THEN /\ store' = Append(store, [db |-> DATABASE_NAME,
                                          collection |-> req[r].collectionName.s,
                                          _id |-> Len(store) + 1,
                                          doc |-> req[r].doc])
                /\ req' = [req EXCEPT ![r] = [@ EXCEPT !.pc = "inserted",
                                                      !.insertedId = Len(store) + 1]]
           ELSE /\ store' = store
                /\ req' = [req EXCEPT ![r] =
                             [@ EXCEPT !.pc = "inserted",
                                       !.insertedId = CHOOSE i \in same : TRUE]]
    /\ UNCHANGED <<startPc, connected, listening, exitCode, now, uploadsExists, files>>

\* the store inserts the document and insertOne resolves.  The insert is
\* atomic: it inserts and resolves, or (InsertFail) rejects and inserts nothing.
InsertOk(r) ==
    /\ req[r].pc = "awaiting"
    /\ store' = Append(store, [db |-> DATABASE_NAME,
                               collection |-> req[r].collectionName.s,
                               _id |-> Len(store) + 1,
                               doc |-> req[r].doc])
    /\ req' = [req EXCEPT ![r] = [@ EXCEPT !.pc = "inserted",
                                           !.insertedId = Len(store) + 1]]
    /\ UNCHANGED <<startPc, connected, listening, exitCode, now, uploadsExists, files>>

\* insertOne rejects: the catch block answers 500
InsertFail(r) ==
    /\ req[r].pc = "awaiting"
    /\ \E message \in InsertErrors :
         req' = [req EXCEPT ![r] =
                   [@ EXCEPT !.pc = "done",
                             !.resp = ErrorResponse(500, ServerErrorMessage, message)]]
    /\ UNCHANGED <<startPc, connected, listening, exitCode, now, uploadsExists, files, store>>

\* the handler throwing after the await: the catch block answers 500
RespondThrows(r) ==
    /\ req[r].pc = "inserted"
    /\ req' = [req EXCEPT ![r] =
                  [@ EXCEPT !.pc = "done",
                            !.resp = ErrorResponse(500, ServerErrorMessage,
                                                   "connection closed")]]
    /\ UNCHANGED <<startPc, connected, listening, exitCode, now, uploadsExists, files, store>>

\* the handler after the await: the 200 response
Respond(r) ==
    /\ req[r].pc = "inserted"
    /\ req' = [req EXCEPT ![r] =
                  [@ EXCEPT !.pc = "done",
                            !.resp = SuccessResponse(req[r].insertedId,
                                                     req[r].collectionName,
                                                     req[r].savedFilename)]]
    /\ UNCHANGED <<startPc, connected, listening, exitCode, now, uploadsExists, files, store>>

Next ==
    \/ StartConnect
    \/ ConnectOk
    \/ ConnectFail
    \/ Listen
    \/ ListenThrows
    \/ Exit
    \/ Tick
    \/ \E r \in Requests : Handle(r)
    \/ \E r \in Requests : InsertOk(r)
    \/ \E r \in Requests : InsertFail(r)
    \/ \E r \in Requests : Respond(r)

Spec == Init /\ [][Next]_vars

\* the server handling concurrent uploads
NextUploads ==
    \/ StartConnect
    \/ ConnectOk
    \/ ConnectFail
    \/ Listen
    \/ ListenThrows
    \/ Exit
    \/ Tick
    \/ \E r \in Requests : HandleUpload(r)
    \/ \E r \in Requests : InsertOk(r)
    \/ \E r \in Requests : InsertFail(r)
    \/ \E r \in Requests : Respond(r)

SpecUploads == Init /\ [][NextUploads]_vars

\* the server handling a single request, of any body
NextAlone ==
    \/ StartConnect
    \/ ConnectOk
    \/ ConnectFail
    \/ Listen
    \/ ListenThrows
    \/ Exit
    \/ Tick
    \/ HandleAlone
    \/ InsertOk(1)
    \/ InsertFail(1)
    \/ Respond(1)

SpecAlone == Init /\ [][NextAlone]_vars

(***************************************************************************)
(* What the claims speak of.                                               *)
(***************************************************************************)
Arrived(r) == req[r].pc # "idle"

\* the request is past the validation: the handler went on to its insert
Validated(r) == "insertOne" \in req[r].calls

\* the request has written its image file: its writeFileSync left a file,
\* whole or in part
Wrote(r) == req[r].written # Null

\* the requests that wrote to a path
WritersOf(path) == {r \in Requests : Wrote(r) /\ req[r].savedFilename = Str(path)}

\* the last of a set of requests: the server takes up its requests in the
\* order of their numbers, and a request writes its file in the step that
\* takes it up
LastOf(S) == CHOOSE r \in S : \A q \in S : q <= r

\* one to 100 characters drawn from ASCII letters, digits, underscore, hyphen
AllowListed(s) ==
    /\ Len(s) \in 1..100
    /\ \A i \in 1..Len(s) :
         s[i] \in UpperChars \cup LowerChars \cup DigitChars \cup {"_", "-"}

\* a number that is neither NaN nor an infinity
IsFinite(n) == n.k = "fin"

FieldIdFails(v) == v.t # "string" \/ ~AllowListed(Trim(v.s))

ImageMissing(body) == body.image_base64 \in {Undefined, Null}

SensorMissing(body) == \E i \in 1..3 : SensorValues(body)[i] \in {Undefined, Null}

SensorNotANumber(body) == \E i \in 1..3 : IsNaN(Number(SensorValues(body)[i]))

\* a sensor value coerces to NaN or to an infinity
SensorNotFinite(body) ==
    \E i \in 1..3 : Number(SensorValues(body)[i]).k \in {"nan", "inf"}

\* the body fails one of the four validation checks
FailsValidation(body) ==
    \/ FieldIdFails(body.field_id)
    \/ ImageMissing(body)
    \/ SensorMissing(body)
    \/ SensorNotANumber(body)

\* the documents of the store that insertOne gave the request
InsertedBy(r) == {i \in 1..Len(store) : store[i]._id = req[r].insertedId}

\* base64 text: groups of four alphabet characters, the last group padded
\* with one or two "="
IsBase64Text(s) ==
    /\ Len(s) % 4 = 0
    /\ \A i \in 1..Len(s) :
         \/ \E j \in 1..Len(B64Chars) : B64Chars[j] = s[i]
         \/ s[i] = "=" /\ i >= Len(s) - 1 /\ (i = Len(s) \/ s[Len(s)] = "=")

\* the characters of a mime type
MimeTypeChars == UpperChars \cup LowerChars \cup DigitChars \cup {"/", "+", "-", "."}

\* positions of ";base64," in s
MarkPositions(s) ==
    {i \in 1..Len(s) : i + Len(Base64Mark) - 1 <= Len(s)
                       /\ SubSeq(s, i, i + Len(Base64Mark) - 1) = Base64Mark}

\* s has the form data:<mime-type>;base64,<payload>, the payload not empty
\* and on one line
IsDataUri(s) ==
    /\ StartsWith(s, DataPrefix)
    /\ MarkPositions(s) # {}
    /\ LET i == CHOOSE k \in MarkPositions(s) : \A l \in MarkPositions(s) : k <= l
           payload == Drop(s, i + Len(Base64Mark))
       IN  /\ i > Len(DataPrefix) + 1
           /\ AllIn(SubSeq(s, Len(DataPrefix) + 1, i - 1), MimeTypeChars)
           /\ payload # <<>>
           /\ \A j \in 1..Len(payload) : payload[j] \notin LineTerminatorChars

\* the <payload> of a data URI
DataUriPayload(s) ==
    LET i == CHOOSE k \in MarkPositions(s) : \A l \in MarkPositions(s) : k <= l
    IN  Drop(s, i + Len(Base64Mark))

\* the base64 text an image value carries
ImageText(s) == IF IsDataUri(s) THEN DataUriPayload(s) ELSE s

(***************************************************************************)
(* The claims.                                                             *)
(***************************************************************************)
\* C1: a request that fails one of the four validation checks is answered
\* 400 in the step that handles it, and that step makes no file-system call
\* and no store call: the uploads directory, the files and the store are
\* unchanged.
C1_ValidationFailureChangesNothing ==
    [][\A r \in Requests :
         (req[r].pc = "idle" /\ req'[r].pc # "idle" /\ FailsValidation(req'[r].body))
         => /\ req'[r].pc = "done"
            /\ req'[r].resp.status = 400
            /\ req'[r].calls = {}
            /\ UNCHANGED <<uploadsExists, files, store>>]_vars

\* C2: a request with a sensor value that is absent, null or coerces to a
\* non-finite number is answered 400 and inserts nothing; every document of
\* the store has finite soil_moisture, temperature and humidity.
C2_NonFiniteSensorIsRejected ==
    /\ \A r \in Requests :
         (Arrived(r) /\ (SensorMissing(req[r].body) \/ SensorNotFinite(req[r].body)))
         => /\ req[r].resp.status = 400
            /\ "insertOne" \notin req[r].calls
    /\ \A i \in 1..Len(store) :
         /\ IsFinite(store[i].doc.soil_moisture)
         /\ IsFinite(store[i].doc.temperature)
         /\ IsFinite(store[i].doc.humidity)

\* C3: a validated request with a decoded buffer whose mkdirSync or
\* writeFileSync threw is not failed by it, and its saved_file is null in
\* the document and in the response.
C3_FsErrorLeavesSavedFileNull ==
    \A r \in Requests :
        (Validated(r) /\ req[r].buffer # Null /\ req[r].fsThrew)
        => /\ req[r].doc.saved_file = Null
           /\ \A i \in InsertedBy(r) : store[i].doc.saved_file = Null
           /\ req[r].resp.status = 200
              => (req[r].resp.saved_file = Null /\ Cardinality(InsertedBy(r)) = 1)

\* C4: a validated request whose image_base64 is no base64 text has no
\* decoded buffer, writes no file, has saved_file null, and its document
\* carries the three coerced numbers.
C4_MalformedImageIsNotSaved ==
    \A r \in Requests :
        (/\ Validated(r)
         /\ req[r].body.image_base64.t = "string"
         /\ ~IsBase64Text(ImageText(req[r].body.image_base64.s)))
        => /\ req[r].buffer = Null
           /\ ~Wrote(r)
           /\ req[r].doc.saved_file = Null
           /\ req[r].doc.soil_moisture = Number(req[r].body.soil_moisture)
           /\ req[r].doc.temperature = Number(req[r].body.temperature)
           /\ req[r].doc.humidity = Number(req[r].body.humidity)
           /\ req[r].resp.status = 200
              => (req[r].resp.saved_file = Null /\ Cardinality(InsertedBy(r)) = 1)

\* C5: the listener is bound only once the connection is established; after
\* a failed connection start() is in its catch block or has exited, with
\* status 1, and the listener is not bound; a request is handled only with
\* the connection established.
C5_ListenOnlyAfterConnect ==
    /\ listening => connected
    /\ (~connected /\ startPc \notin {"init", "connecting"})
         => (startPc \in {"catch", "exited"} /\ ~listening)
    /\ startPc = "exited" => (exitCode = 1 /\ ~listening)
    /\ exitCode # -1 => (exitCode # 0 /\ startPc = "exited")
    /\ \A r \in Requests : Arrived(r) => (connected /\ listening)

\* a request answered 200, the connection established and the listener bound
C5_Witness ==
    \E r \in Requests :
        req[r].resp.status = 200 /\ connected /\ startPc = "listening"

\* C6: the store holds one document per request answered 200 (and one per
\* request whose insert has resolved and whose response is still to be
\* sent), the identifiers of the documents differ, and each request
\* answered 200 names its own document.
C6_OneDocumentPerSuccess ==
    /\ Len(store) = Cardinality({r \in Requests : req[r].resp.status = 200})
                    + Cardinality({r \in Requests : req[r].pc = "inserted"})
    /\ \A i, j \in 1..Len(store) : i # j => store[i]._id # store[j]._id
    /\ \A r \in Requests :
         req[r].resp.status = 200
         => /\ Cardinality(InsertedBy(r)) = 1
            /\ req[r].resp.insertedId = req[r].insertedId
            /\ \A i \in InsertedBy(r) : store[i].doc = req[r].doc
    /\ \A r1, r2 \in Requests :
         (r1 # r2 /\ req[r1].resp.status = 200 /\ req[r2].resp.status = 200)
         => req[r1].resp.insertedId # req[r2].resp.insertedId

\* two requests with the same body, both answered 200: two equal documents
\* with two identifiers
C6_Witness ==
    \E r1, r2 \in Requests :
        /\ r1 # r2
        /\ req[r1].body = req[r2].body
        /\ req[r1].resp.status = 200
        /\ req[r2].resp.status = 200
        /\ req[r1].doc = req[r2].doc
        /\ Len(store) = 2
        /\ store[1].doc = store[2].doc
        /\ store[1]._id # store[2]._id

\* C7 as stated: two requests that each wrote an image file wrote to two
\* paths, and no two documents carry the same non-null saved_file.
C7_FileNamesAreUnique ==
    /\ \A r1, r2 \in Requests :
         (r1 # r2 /\ Wrote(r1) /\ Wrote(r2))
         => req[r1].savedFilename # req[r2].savedFilename
    /\ \A i, j \in 1..Len(store) :
         (i # j /\ store[i].doc.saved_file # Null)
         => store[i].doc.saved_file # store[j].doc.saved_file

\* C7 as amended: two requests that each wrote an image file wrote to the
\* same path exactly when they have the same sanitized field_id and read
\* the same millisecond from the clock for the file name; every file is at
\* the path of a request that wrote it and holds what the last request to
\* write there left in it; every document carries the saved_file of its
\* request, so that two documents carry the same path exactly when their
\* requests do.
C7_FileNamesDifferUnlessSameIdAndMillisecond ==
    /\ \A r1, r2 \in Requests :
         (r1 # r2 /\ Wrote(r1) /\ Wrote(r2))
         => (req[r1].savedFilename = req[r2].savedFilename
             <=> (/\ Trim(req[r1].body.field_id.s) = Trim(req[r2].body.field_id.s)
                  /\ req[r1].timestamp = req[r2].timestamp))
    /\ \A f \in files :
         /\ WritersOf(f.path) # {}
         /\ req[LastOf(WritersOf(f.path))].written = Buf(f.bytes)
    /\ \A r \in Requests :
         /\ Wrote(r) => \E f \in files : req[r].savedFilename = Str(f.path)
         /\ \A i \in InsertedBy(r) : store[i].doc.saved_file = req[r].savedFilename

\* two requests for two field_ids that wrote in one millisecond: two files,
\* each holding the image of its request
C7_Witness ==
    \E r1, r2 \in Requests :
        /\ r1 # r2
        /\ Wrote(r1)
        /\ Wrote(r2)
        /\ Trim(req[r1].body.field_id.s) # Trim(req[r2].body.field_id.s)
        /\ req[r1].timestamp = req[r2].timestamp
        /\ req[r1].savedFilename # req[r2].savedFilename
        /\ \A r \in {r1, r2} :
             \E f \in files : req[r].savedFilename = Str(f.path)
                              /\ req[r].buffer = Buf(f.bytes)

\* C8 as stated: a validated request answered 500 carries {error: "Server error",
\* details: <message>} and has left no durable write: no document and no
\* image file.
C8_ServerErrorLeavesNoWrite ==
    \A r \in Requests :
        (Validated(r) /\ req[r].resp.status = 500)
        => /\ req[r].resp.error = ServerErrorMessage
           /\ req[r].resp.details \in InsertErrors
           /\ InsertedBy(r) = {}
           /\ ~Wrote(r)

\* C8 as amended: a validated request answered 500 carries {error: "Server error",
\* details: <message>} and has inserted no document; the image file it
\* wrote before the insert, if any, is still on disk.
C8_ServerErrorLeavesNoDocument ==
    /\ \A r \in Requests :
         (Validated(r) /\ req[r].resp.status = 500)
         => /\ req[r].resp.error = ServerErrorMessage
            /\ req[r].resp.details \in InsertErrors
            /\ ~req[r].resp.success
            /\ req[r].insertedId = 0
            /\ InsertedBy(r) = {}
            /\ Wrote(r) => \E f \in files : req[r].savedFilename = Str(f.path)
    /\ Len(store) = Cardinality({r \in Requests : req[r].insertedId # 0})

\* a request answered 500 whose image file is on disk, the store empty
C8_Witness ==
    \E r \in Requests :
        /\ Validated(r)
        /\ req[r].resp.status = 500
        /\ Wrote(r)
        /\ \E f \in files : req[r].savedFilename = Str(f.path)
        /\ store = <<>>

\* C9: every document is in the configured database, in the collection
\* named by its own field_id, which is the trimmed field_id of the request
\* that inserted it and is allow-listed; every file name is built from such
\* a name; a request whose field_id fails the allow-list makes no call on
\* the file system or the store.
C9_CollectionIsSanitizedFieldId ==
    /\ \A i \in 1..Len(store) :
         /\ store[i].db = DATABASE_NAME
         /\ store[i].doc.field_id = Str(store[i].collection)
         /\ AllowListed(store[i].collection)
         /\ \E r \in Requests :
               /\ req[r].insertedId = store[i]._id
               /\ req[r].body.field_id.t = "string"
               /\ store[i].collection = Trim(req[r].body.field_id.s)
    /\ \A f \in files :
         \E r \in Requests :
            /\ Wrote(r)
            /\ req[r].body.field_id.t = "string"
            /\ AllowListed(Trim(req[r].body.field_id.s))
            /\ f.path = UploadsDir \o <<"/">> \o Trim(req[r].body.field_id.s) \o <<"_">>
                           \o ToDigits(req[r].timestamp) \o <<".","j","p","g">>
    /\ \A r \in Requests :
         (Arrived(r) /\ FieldIdFails(req[r].body.field_id)) => req[r].calls = {}

\* a document and a file of a request whose field_id had white space around
\* it and that named another database
C9_Witness ==
    \E r \in Requests :
        /\ req[r].body.field_id.t = "string"
        /\ req[r].body.field_id.s # Trim(req[r].body.field_id.s)
        /\ req[r].body.database_name # Undefined
        /\ InsertedBy(r) # {}
        /\ Wrote(r)
        /\ files # {}

\* C10: the buffer decoded from a string of the form
\* data:<mime-type>;base64,<payload> holds the bytes of <payload> alone, and
\* the buffer decoded from any other string the bytes of the whole string.
C10_DataUriPrefixIsStripped ==
    \A r \in Requests :
        (Validated(r) /\ req[r].body.image_base64.t = "string")
        => req[r].buffer = BufferFromBase64(ImageText(req[r].body.image_base64.s))

====
